---------------------------- MODULE Spec2Model ----------------------------
(***************************************************************************)
(* A model of logging_journald.py: the field encoder                       *)
(* (JournaldTransport.pack), the transport (JournaldTransport.send with    *)
(* its memfd/temporary-file path) and the record adapter                   *)
(* (JournaldLogHandler).                                                   *)
(*                                                                         *)
(* Text is a sequence of characters, a character is a string; bytes are a  *)
(* sequence of numbers 0..255.  Python values are tagged records           *)
(* [t |-> <type>, v |-> <payload>].                                        *)
(***************************************************************************)
EXTENDS Integers, Sequences, FiniteSets, TLC

VARIABLES
    byteorder,      \* the platform's native byte order (struct "@Q")
    variant,        \* "memfd" where os.memfd_create exists, else "tempfile"
    socket_path,    \* the socket_path handed to JournaldLogHandler(...)
    handler,        \* the handler, with its transport and the socket of it
    daemon,         \* "up" while the daemon listens, "down" after it stopped
    inflight,       \* the datagrams sent and not yet received
    received,       \* the datagrams the daemon received
    files,          \* the files of memfd_open: content and seal
    open_fds,       \* the descriptors of memfd_open open in the process
    stderr,         \* the texts written to sys.stderr
    calls,          \* the number of calls made
    threads,        \* the threads that make calls
    pc,             \* of each thread, the step of its call
    call,           \* of each thread, "emit" or "send"
    arg,            \* the record of its emit or the send_pairs of its send
    send_pairs,     \* the pairs handed to send
    getvalue,       \* the buffer send encoded (fp.getvalue())
    mfp,            \* the file object of memfd_open: descriptor and buffer
    caught,         \* the exception that emit caught
    exc,            \* the exception in flight, and the one the call raised
    ops,            \* the socket and file operations of the call
    fn,             \* the function called on its own: "pack", "format" or "none"
    fn_pc,          \* "call" before that call, "return" after it
    fn_arg,         \* its argument
    fn_ret          \* its result

fnvars == <<byteorder, fn, fn_pc, fn_arg, fn_ret>>

progvars == <<threads, variant, socket_path, handler, daemon, inflight, received, files, open_fds,
              stderr, calls, pc, call, arg, send_pairs, getvalue, mfp, caught, exc, ops>>

vars == <<fnvars, progvars>>

(***************************************************************************)
(* Bounds of the model.                                                    *)
(***************************************************************************)
\* nesting depth of the sequences and mappings handed to pack
MaxDepth == 2

\* the calls the threads make in all
MaxCalls == 2

\* the longest datagram the socket takes, in bytes
DgramLimit == 512

\* the size of the buffer of a buffered file object, in bytes
BufSize == 768

(***************************************************************************)
(* Python values.                                                          *)
(***************************************************************************)
PyNone == [t |-> "none", v |-> 0]
PyInt(n) == [t |-> "int", v |-> n]
PyBool(b) == [t |-> "bool", v |-> b]
\* the float h / 2
PyFloat(h) == [t |-> "float", v |-> h]
PyStr(s) == [t |-> "str", v |-> s]
PyBytes(b) == [t |-> "bytes", v |-> b]
PyList(items) == [t |-> "list", v |-> items]
PyTuple(items) == [t |-> "tuple", v |-> items]
\* a dict is the sequence of its items <<key, value>>, in insertion order
PyDict(items) == [t |-> "dict", v |-> items]
\* an object of any other type, known by its str()
PyObject(s) == [t |-> "obj", v |-> s]
\* an object of any other type whose __str__ raises the exception e
PyBroken(e) == [t |-> "broken", v |-> e]

(***************************************************************************)
(* Characters, str.upper, str.encode, str(int), str(float).                *)
(***************************************************************************)
LOWER == <<"a","b","c","d","e","f","g","h","i","j","k","l","m",
           "n","o","p","q","r","s","t","u","v","w","x","y","z">>
UPPER == <<"A","B","C","D","E","F","G","H","I","J","K","L","M",
           "N","O","P","Q","R","S","T","U","V","W","X","Y","Z">>
DIGITS == <<"0","1","2","3","4","5","6","7","8","9">>

Range(s) == { s[i] : i \in 1..Len(s) }

Index(s, c) == CHOOSE i \in 1..Len(s) : s[i] = c

\* a two-byte character (e with acute accent) and its capital
E_ACUTE == "U+00E9"
E_ACUTE_CAPITAL == "U+00C9"

\* the code points of the other ASCII characters the model uses
PUNCT == [c \in {"\n", " ", "%", "'", "-", ".", "/", ":", "<", "=", ">", "\\", "_"} |->
            CASE c = "\n" -> 10 [] c = " " -> 32 [] c = "%" -> 37 [] c = "'" -> 39
              [] c = "-" -> 45 [] c = "." -> 46 [] c = "/" -> 47 [] c = ":" -> 58
              [] c = "<" -> 60 [] c = "=" -> 61 [] c = ">" -> 62 [] c = "\\" -> 92
              [] c = "_" -> 95]

\* str.upper() on one character
upper_char(c) ==
    IF c \in Range(LOWER) THEN UPPER[Index(LOWER, c)]
    ELSE IF c = E_ACUTE THEN E_ACUTE_CAPITAL
    ELSE c

\* str.upper()
str_upper(s) == [i \in 1..Len(s) |-> upper_char(s[i])]

\* the UTF-8 bytes of one encodable character
utf8_char(c) ==
    IF c \in Range(LOWER) THEN <<96 + Index(LOWER, c)>>
    ELSE IF c \in Range(UPPER) THEN <<64 + Index(UPPER, c)>>
    ELSE IF c \in Range(DIGITS) THEN <<47 + Index(DIGITS, c)>>
    ELSE IF c = E_ACUTE THEN <<195, 169>>
    ELSE IF c = E_ACUTE_CAPITAL THEN <<195, 137>>
    ELSE <<PUNCT[c]>>

\* the sequences seqs[lo], ..., seqs[hi] joined into one, by halves
RECURSIVE concat_range(_, _, _)
concat_range(seqs, lo, hi) ==
    IF lo > hi THEN <<>>
    ELSE IF lo = hi THEN seqs[lo]
    ELSE concat_range(seqs, lo, (lo + hi) \div 2)
         \o concat_range(seqs, ((lo + hi) \div 2) + 1, hi)

\* the sequences of seqs joined into one
concat(seqs) == concat_range(seqs, 1, Len(seqs))

\* the UTF-8 bytes of a text
utf8(s) == concat([i \in 1..Len(s) |-> utf8_char(s[i])])

\* str.encode() of a text (well-formed Unicode): its UTF-8 bytes
str_encode(s) == utf8(s)

\* str(n) of a natural number
RECURSIVE nat_str(_)
nat_str(n) ==
    IF n < 10 THEN <<DIGITS[n + 1]>>
    ELSE nat_str(n \div 10) \o <<DIGITS[(n % 10) + 1]>>

\* str(n) of an integer
int_str(n) == IF n < 0 THEN <<"-">> \o nat_str(-n) ELSE nat_str(n)

\* str(x) of the float x = h / 2 (the model's floats are halves)
float_str(h) ==
    LET a == IF h < 0 THEN -h ELSE h
    IN  (IF h < 0 THEN <<"-">> ELSE <<>>)
        \o nat_str(a \div 2) \o <<".">> \o (IF a % 2 = 0 THEN <<"0">> ELSE <<"5">>)

\* "{}".format(value) of a scalar
format_value(value) ==
    CASE value.t = "int" -> int_str(value.v)
      [] value.t = "bool" -> IF value.v THEN <<"T","r","u","e">> ELSE <<"F","a","l","s","e">>
      [] value.t = "float" -> float_str(value.v)
      [] value.t = "str" -> value.v

(***************************************************************************)
(* JournaldTransport: the field encoder.                                   *)
(***************************************************************************)
\* struct.Struct("@Q").pack(n): 8 bytes, native byte order
RECURSIVE le_bytes(_, _)
le_bytes(n, k) == IF k = 0 THEN <<>> ELSE <<n % 256>> \o le_bytes(n \div 256, k - 1)

Reverse(s) == [i \in 1..Len(s) |-> s[Len(s) + 1 - i]]

VALUE_LEN_STRUCT_size == 8

VALUE_LEN_STRUCT_pack(n) ==
    IF byteorder = "little" THEN le_bytes(n, VALUE_LEN_STRUCT_size)
    ELSE Reverse(le_bytes(n, VALUE_LEN_STRUCT_size))

\* "{}={}\n".format(key.upper(), value).encode()
_encode_short(key, value) ==
    str_encode(str_upper(key) \o <<"=">> \o format_value(value) \o <<"\n">>)

\* _encode_long as it would be with the terminating newline counted in the
\* length
_encode_long_counts_newline(key, value) ==
    LET length == VALUE_LEN_STRUCT_pack(Len(value) + 1)
    IN  str_encode(str_upper(key)) \o <<10>> \o length \o value \o <<10>>

\* key.upper().encode() + b"\n" + length + value + b"\n"
_encode_long(key, value) ==
    LET length == VALUE_LEN_STRUCT_pack(Len(value))
    IN  str_encode(str_upper(key)) \o <<10>> \o length \o value \o <<10>>

\* An output buffer (io.BytesIO): the bytes written so far, and the
\* exception that ended the writing ("none" while there is none).
BytesIO == [buf |-> <<>>, exc |-> "none"]

\* fp.write(data)
write(fp, data) == [fp EXCEPT !.buf = @ \o data]

\* str(value) raises
raise(fp, exception) == [fp EXCEPT !.exc = exception]

\* The buffer fp after a loop of calls that write to it, the i-th of which
\* writes done[i].buf and then returns or raises done[i].exc: the writes up
\* to the first call that raises, and its exception.
write_all(fp, done) ==
    LET raising == { i \in 1..Len(done) : done[i].exc # "none" }
        last == IF raising = {} THEN Len(done)
                ELSE CHOOSE i \in raising : \A j \in raising : i <= j
    IN  [buf |-> fp.buf \o concat([i \in 1..last |-> done[i].buf]),
         exc |-> IF raising = {} THEN "none" ELSE done[last].exc]

RECURSIVE pack(_, _, _), pack_items(_, _, _), pack_dict(_, _, _)

\* pack as it would be with a truthiness test in place of "is None"
pack_falsy(fp, key, value) ==
    IF \/ value.t = "none"
       \/ value.t \in {"int", "float"} /\ value.v = 0
       \/ value.t = "bool" /\ ~value.v
       \/ value.t \in {"str", "bytes", "list", "tuple", "dict"} /\ value.v = <<>>
    THEN fp
    ELSE CASE value.t \in {"int", "bool", "float"} -> write(fp, _encode_short(key, value))
           [] value.t = "str" ->
                IF "\n" \in Range(value.v)
                THEN write(fp, _encode_long(key, str_encode(value.v)))
                ELSE write(fp, _encode_short(key, value))
           [] value.t = "bytes" -> write(fp, _encode_long(key, value.v))
           [] value.t \in {"list", "tuple"} -> pack_items(fp, key, value.v)
           [] value.t = "dict" -> pack_dict(fp, key, value.v)
           [] value.t = "broken" -> raise(fp, value.v)
           [] OTHER -> pack(fp, key, PyBytes(str_encode(value.v)))

\* JournaldTransport.pack(fp, key, value): the buffer fp after the call,
\* with the exception the call raised
pack(fp, key, value) ==
    CASE value.t = "none" -> fp
      [] value.t \in {"int", "bool", "float"} -> write(fp, _encode_short(key, value))
      [] value.t = "str" ->
           IF "\n" \in Range(value.v)
           THEN write(fp, _encode_long(key, str_encode(value.v)))
           ELSE write(fp, _encode_short(key, value))
      [] value.t = "bytes" -> write(fp, _encode_long(key, value.v))
      [] value.t \in {"list", "tuple"} -> pack_items(fp, key, value.v)
      [] value.t = "dict" -> pack_dict(fp, key, value.v)
      [] value.t = "broken" -> raise(fp, value.v)
      [] OTHER -> pack(fp, key, PyBytes(str_encode(value.v)))

\* the loop over a sequence as it would be if it counted from one
pack_items_from_one(fp, key, items) ==
    write_all(fp, [i \in 1..Len(items) |->
                     pack(BytesIO, key \o <<"_">> \o int_str(i), items[i])])

\* for idx, item in enumerate(value): cls.pack(fp, "{}_{}".format(key, idx), item)
pack_items(fp, key, items) ==
    write_all(fp, [i \in 1..Len(items) |->
                     pack(BytesIO, key \o <<"_">> \o int_str(i - 1), items[i])])

\* for d_key, d_value in value.items(): cls.pack(fp, "{}_{}".format(key, d_key), d_value)
pack_dict(fp, key, items) ==
    write_all(fp, [i \in 1..Len(items) |->
                     pack(BytesIO, key \o <<"_">> \o items[i][1], items[i][2])])

\* for key, value in pairs: self.pack(fp, key, value)
pack_pairs(fp, pairs) ==
    write_all(fp, [i \in 1..Len(pairs) |-> pack(BytesIO, pairs[i][1], pairs[i][2])])

(***************************************************************************)
(* The receiver of the tests, FakeJournald.handle_datagram.                *)
(***************************************************************************)
Min(S) == CHOOSE x \in S : \A y \in S : x <= y

\* the character of a code point below 128, "?" standing for none of the
\* model's characters
chr(b) ==
    IF b \in 97..122 THEN LOWER[b - 96]
    ELSE IF b \in 65..90 THEN UPPER[b - 64]
    ELSE IF b \in 48..57 THEN DIGITS[b - 47]
    ELSE IF \E c \in DOMAIN PUNCT : PUNCT[c] = b
         THEN CHOOSE c \in DOMAIN PUNCT : PUNCT[c] = b
         ELSE "?"

\* bytes.decode(): the text, or UnicodeDecodeError
bytes_decode(b) ==
    LET second(i) == i > 1 /\ b[i - 1] = 195 /\ b[i] \in {169, 137}
        first(i) == b[i] = 195 /\ i < Len(b) /\ b[i + 1] \in {169, 137}
        ascii(i) == b[i] < 128 /\ chr(b[i]) # "?"
        starts(i) == ~second(i)
        at == SelectSeq([i \in 1..Len(b) |-> i], starts)
    IN  IF \A i \in 1..Len(b) : ascii(i) \/ first(i) \/ second(i)
        THEN [ok |-> TRUE,
              text |-> [n \in 1..Len(at) |->
                          IF first(at[n])
                          THEN (IF b[at[n] + 1] = 169 THEN E_ACUTE ELSE E_ACUTE_CAPITAL)
                          ELSE chr(b[at[n]])]]
        ELSE [ok |-> FALSE, text |-> <<>>]

WHITESPACE == {" ", "\n"}

\* str.strip()
str_strip(s) ==
    LET keep == { i \in 1..Len(s) : s[i] \notin WHITESPACE }
    IN  IF keep = {} THEN <<>>
        ELSE SubSeq(s, CHOOSE i \in keep : \A j \in keep : i <= j,
                       CHOOSE i \in keep : \A j \in keep : i >= j)

\* fp.readline() at position pos (1-based): up to and with the next newline
readline(data, pos) ==
    LET ends == { i \in pos..Len(data) : data[i] = 10 }
    IN  IF ends = {} THEN SubSeq(data, pos, Len(data))
        ELSE SubSeq(data, pos, Min(ends))

\* fp.read(n) at position pos
read(data, pos, n) ==
    SubSeq(data, pos, IF pos + n - 1 > Len(data) THEN Len(data) ELSE pos + n - 1)

\* struct.Struct("@Q").unpack(b)[0] of 8 bytes
RECURSIVE le_value(_)
le_value(b) == IF b = <<>> THEN 0 ELSE b[1] + 256 * le_value(Tail(b))

VALUE_LEN_STRUCT_unpack(b) ==
    IF byteorder = "little" THEN le_value(b) ELSE le_value(Reverse(b))

\* One pass of the loop of handle_datagram at position pos of data: the
\* field read, as bytes (of a line without "=", the key line, the 8 length
\* bytes, the value of that length and the byte read after it; of a line
\* with "=", the two parts), the position after it, and the exception that
\* ends the loop there.
read_field(data, pos) ==
    LET line == readline(data, pos)
        after == pos + Len(line)
    IN  IF 61 \notin Range(line)
        THEN LET size == read(data, after, VALUE_LEN_STRUCT_size)
             IN  IF Len(size) < VALUE_LEN_STRUCT_size
                 THEN [form |-> "long", key |-> line, value |-> <<>>, end |-> <<>>,
                       pos |-> after + Len(size), exc |-> "struct.error"]
                 ELSE LET value_len == VALUE_LEN_STRUCT_unpack(size)
                          value == read(data, after + 8, value_len)
                          end == read(data, after + 8 + Len(value), 1)
                      IN  [form |-> "long", key |-> line, value |-> value, end |-> end,
                           pos |-> after + 8 + Len(value) + Len(end),
                           exc |-> IF end = <<10>> THEN "none" ELSE "AssertionError"]
        ELSE LET eq == Min({ i \in 1..Len(line) : line[i] = 61 })
             IN  [form |-> "short", key |-> SubSeq(line, 1, eq - 1),
                  value |-> SubSeq(line, eq + 1, Len(line)), end |-> <<>>,
                  pos |-> after, exc |-> "none"]

\* The fields of at most n passes of the loop from position pos, by halves,
\* and the position they end at; the loop ends at the end of the data and
\* at an exception.
RECURSIVE read_passes(_, _, _)
read_passes(data, pos, n) ==
    IF pos > Len(data) \/ n = 0 THEN [fields |-> <<>>, pos |-> pos, exc |-> "none"]
    ELSE IF n = 1
    THEN LET f == read_field(data, pos)
         IN  [fields |-> <<f>>, pos |-> f.pos, exc |-> f.exc]
    ELSE LET head == read_passes(data, pos, n \div 2)
         IN  IF head.exc # "none" \/ head.pos > Len(data) THEN head
             ELSE LET rest == read_passes(data, head.pos, n - (n \div 2))
                  IN  [fields |-> head.fields \o rest.fields, pos |-> rest.pos,
                       exc |-> rest.exc]

\* the fields the loop reads from position pos: a pass reads a byte at least
read_fields(data, pos) == read_passes(data, pos, Len(data)).fields

\* a.update(b) on dicts kept as their items
dict_update(a, b) ==
    LET has(items, key) == \E i \in 1..Len(items) : items[i][1] = key
        get(items, key) == items[CHOOSE i \in 1..Len(items) : items[i][1] = key][2]
        new(item) == ~has(a, item[1])
    IN  [i \in 1..Len(a) |-> IF has(b, a[i][1]) THEN <<a[i][1], get(b, a[i][1])>> ELSE a[i]]
        \o SelectSeq(b, new)

\* result[key] = value of one field, or the exception its decoding raises
set_field(f) ==
    LET key == bytes_decode(f.key)
        value == bytes_decode(f.value)
    IN  IF ~key.ok THEN [exc |-> "UnicodeDecodeError", result |-> <<>>]
        ELSE IF f.exc = "struct.error" THEN [exc |-> f.exc, result |-> <<>>]
        ELSE IF ~value.ok THEN [exc |-> "UnicodeDecodeError", result |-> <<>>]
        ELSE IF f.exc # "none" THEN [exc |-> f.exc, result |-> <<>>]
        ELSE [exc |-> "none",
              result |-> << <<str_strip(key.text),
                              IF f.form = "long" THEN value.text
                              ELSE str_strip(value.text)>> >>]

\* the dict the loop builds of the fields lo to hi, by halves, or the
\* exception that ends it
RECURSIVE collect(_, _, _)
collect(fields, lo, hi) ==
    IF lo > hi THEN [exc |-> "none", result |-> <<>>]
    ELSE IF lo = hi THEN set_field(fields[lo])
    ELSE LET head == collect(fields, lo, (lo + hi) \div 2)
         IN  IF head.exc # "none" THEN head
             ELSE LET rest == collect(fields, ((lo + hi) \div 2) + 1, hi)
                  IN  [exc |-> rest.exc, result |-> dict_update(head.result, rest.result)]

\* FakeJournald.handle_datagram(data): the dict appended to logs
handle_datagram(data) ==
    LET fields == read_fields(data, 1)
    IN  collect(fields, 1, Len(fields))

(***************************************************************************)
(* Dicts kept as their items, and the text helpers of the record adapter.  *)
(***************************************************************************)
dict_has(items, key) == \E i \in 1..Len(items) : items[i][1] = key

\* items[key] = value
dict_set(items, key, value) ==
    IF \E i \in 1..Len(items) : items[i][1] = key
    THEN [i \in 1..Len(items) |-> IF items[i][1] = key THEN <<key, value>> ELSE items[i]]
    ELSE Append(items, <<key, value>>)

\* items[key], for a key the dict has
dict_get(items, key) == items[CHOOSE i \in 1..Len(items) : items[i][1] = key][2]

\* the dict without the keys
dict_without(items, keys) ==
    LET kept(item) == item[1] \notin keys
    IN  SelectSeq(items, kept)

\* a dict display {k1: v1, k2: v2, ...} of keys that may repeat, as it
\* would be if the first value of a key stayed
RECURSIVE dict_display_keep_first(_)
dict_display_keep_first(items) ==
    IF items = <<>> THEN <<>>
    ELSE LET before == dict_display_keep_first(SubSeq(items, 1, Len(items) - 1))
             last == items[Len(items)]
         IN  IF dict_has(before, last[1]) THEN before ELSE Append(before, last)

\* a dict display {k1: v1, k2: v2, ...} of keys that may repeat: the items
\* are stored left to right, a later value replacing an earlier one
RECURSIVE dict_display(_)
dict_display(items) ==
    IF items = <<>> THEN <<>>
    ELSE LET last == items[Len(items)]
         IN  dict_set(dict_display(SubSeq(items, 1, Len(items) - 1)), last[1], last[2])

\* sep.join(texts)
join(sep, texts) ==
    concat([i \in 1..(2 * Len(texts) - 1) |->
              IF i % 2 = 1 THEN texts[(i + 1) \div 2] ELSE sep])

\* the character "\0", which only a hashed text holds
NUL == "\\0"

\* str(value) of a value that has one
py_str(value) ==
    CASE value.t = "none" -> <<"N","o","n","e">>
      [] value.t \in {"int", "bool", "float", "str"} -> format_value(value)
      [] OTHER -> value.v

(***************************************************************************)
(* logging: the levels, LogRecord, LogRecord.getMessage, Formatter.format. *)
(***************************************************************************)
CRITICAL == 50
FATAL == CRITICAL
ERROR == 40
WARNING == 30
INFO == 20
DEBUG == 10
NOTSET == 0

\* a level of the application's own, between INFO and WARNING
CUSTOM_LEVEL == 25

\* msg % args for the conversions %d and %s, after the text done: the
\* text, or the exception
RECURSIVE percent_from(_, _, _)
percent_from(msg, args, done) ==
    IF msg = <<>>
    THEN IF args = <<>> THEN [exc |-> "none", text |-> done]
         ELSE [exc |-> "TypeError", text |-> <<>>]
    ELSE IF msg[1] # "%"
    THEN percent_from(Tail(msg), args, Append(done, msg[1]))
    ELSE IF Len(msg) < 2 \/ msg[2] \notin {"d", "s"}
    THEN [exc |-> "ValueError", text |-> <<>>]
    ELSE IF args = <<>>
    THEN [exc |-> "TypeError", text |-> <<>>]
    ELSE IF msg[2] = "d" /\ args[1].t # "int"
    THEN [exc |-> "TypeError", text |-> <<>>]
    ELSE IF args[1].t = "broken"
    THEN [exc |-> args[1].v, text |-> <<>>]
    ELSE percent_from(SubSeq(msg, 3, Len(msg)), Tail(args), done \o py_str(args[1]))

\* msg % args
percent_format(msg, args) == percent_from(msg, args, <<>>)

\* LogRecord.getMessage(): msg % args when there are args
getMessage(record) ==
    LET msg == dict_get(record, <<"m","s","g">>).v
        args == dict_get(record, <<"a","r","g","s">>).v
    IN  IF args # <<>> THEN percent_format(msg, args)
        ELSE [exc |-> "none", text |-> msg]

\* Formatter.formatException(exc_info): the traceback lines joined, without
\* the last newline
formatException(exc_info) ==
    LET s == join(<<>>, exc_info.lines)
    IN  IF s # <<>> /\ s[Len(s)] = "\n" THEN SubSeq(s, 1, Len(s) - 1) ELSE s

\* Handler.format(record) with the default formatter: the message, and the
\* traceback text after it when the record holds an exception
format(record) ==
    LET m == getMessage(record)
        exc_info == dict_get(record, <<"e","x","c","_","i","n","f","o">>)
    IN  IF m.exc # "none" \/ exc_info.t = "none" THEN m
        ELSE [exc |-> "none",
              text |-> (IF m.text # <<>> /\ m.text[Len(m.text)] = "\n"
                        THEN m.text ELSE m.text \o <<"\n">>)
                       \o formatException(exc_info)]

\* record.__dict__ once format(record) has returned: it has set
\* record.message and, with an exception, record.exc_text
formatted_dict(record) ==
    LET exc_info == dict_get(record, <<"e","x","c","_","i","n","f","o">>)
        with_message == dict_set(record, <<"m","e","s","s","a","g","e">>, PyStr(getMessage(record).text))
    IN  IF exc_info.t = "none" THEN with_message
        ELSE dict_set(with_message, <<"e","x","c","_","t","e","x","t">>, PyStr(formatException(exc_info)))

\* exc_info of an exception: str() of its type and of its value, and the
\* lines traceback.format_exception gives
ExcInfo(type, value, lines) ==
    [t |-> "exc_info", type |-> PyObject(type), value |-> PyObject(value), lines |-> lines]

\* logging.getLevelName(levelno)
getLevelName(levelno) ==
    CASE levelno = CRITICAL -> <<"C","R","I","T","I","C","A","L">>
      [] levelno = ERROR -> <<"E","R","R","O","R">>
      [] levelno = WARNING -> <<"W","A","R","N","I","N","G">>
      [] levelno = INFO -> <<"I","N","F","O">>
      [] levelno = DEBUG -> <<"D","E","B","U","G">>
      [] levelno = NOTSET -> <<"N","O","T","S","E","T">>
      [] OTHER -> <<"L","e","v","e","l"," ">> \o int_str(levelno)

\* The __dict__ of a LogRecord made by a logging call in the function f of
\* the module m (m.py, line 7), by the thread MainThread (1) of the process
\* MainProcess (42), 1.5 s after the start of logging; the keys of extra
\* come last.
LogRecord(levelno, msg, args, exc_info, extra) ==
    << <<<<"n","a","m","e">>, PyStr(<<"t","e","s","t">>)>>,
       <<<<"m","s","g">>, PyStr(msg)>>,
       <<<<"a","r","g","s">>, PyTuple(args)>>,
       <<<<"l","e","v","e","l","n","a","m","e">>, PyStr(getLevelName(levelno))>>,
       <<<<"l","e","v","e","l","n","o">>, PyInt(levelno)>>,
       <<<<"p","a","t","h","n","a","m","e">>, PyStr(<<"/","m",".","p","y">>)>>,
       <<<<"f","i","l","e","n","a","m","e">>, PyStr(<<"m",".","p","y">>)>>,
       <<<<"m","o","d","u","l","e">>, PyStr(<<"m">>)>>,
       <<<<"e","x","c","_","i","n","f","o">>, exc_info>>,
       <<<<"e","x","c","_","t","e","x","t">>, PyNone>>,
       <<<<"s","t","a","c","k","_","i","n","f","o">>, PyNone>>,
       <<<<"l","i","n","e","n","o">>, PyInt(7)>>,
       <<<<"f","u","n","c","N","a","m","e">>, PyStr(<<"f">>)>>,
       <<<<"c","r","e","a","t","e","d">>, PyFloat(5)>>,
       <<<<"m","s","e","c","s">>, PyFloat(1000)>>,
       <<<<"r","e","l","a","t","i","v","e","C","r","e","a","t","e","d">>, PyFloat(3)>>,
       <<<<"t","h","r","e","a","d">>, PyInt(1)>>,
       <<<<"t","h","r","e","a","d","N","a","m","e">>, PyStr(<<"M","a","i","n","T","h","r","e","a","d">>)>>,
       <<<<"p","r","o","c","e","s","s","N","a","m","e">>, PyStr(<<"M","a","i","n","P","r","o","c","e","s","s">>)>>,
       <<<<"p","r","o","c","e","s","s">>, PyInt(42)>> >> \o extra

(***************************************************************************)
(* JournaldLogHandler: the record adapter.                                 *)
(***************************************************************************)
Facility ==
    [KERN |-> 0, USER |-> 1, MAIL |-> 2, DAEMON |-> 3, AUTH |-> 4, SYSLOG |-> 5,
     LPR |-> 6, NEWS |-> 7, UUCP |-> 8, CLOCK_DAEMON |-> 9, AUTHPRIV |-> 10,
     FTP |-> 11, NTP |-> 12, AUDIT |-> 13, ALERT |-> 14, CRON |-> 15,
     LOCAL0 |-> 16, LOCAL1 |-> 17, LOCAL2 |-> 18, LOCAL3 |-> 19, LOCAL4 |-> 20,
     LOCAL5 |-> 21, LOCAL6 |-> 22, LOCAL7 |-> 23]

\* the items of the dict display of LEVELS, as written
LEVELS_display ==
    << <<CRITICAL, 2>>, <<DEBUG, 7>>, <<FATAL, 0>>, <<ERROR, 3>>,
       <<INFO, 6>>, <<NOTSET, 16>>, <<WARNING, 4>> >>

\* LEVELS as it would be if CRITICAL kept the value written for it
LEVELS_keep_first == dict_display_keep_first(LEVELS_display)

\* JournaldLogHandler.LEVELS
LEVELS == dict_display(LEVELS_display)

\* the items of RECORD_FIELDS_MAP, in their order
RECORD_FIELDS_MAP ==
    << <<<<"a","r","g","s">>, PyStr(<<"a","r","g","u","m","e","n","t","s">>)>>,
       <<<<"c","r","e","a","t","e","d">>, PyNone>>,
       <<<<"e","x","c","_","i","n","f","o">>, PyNone>>,
       <<<<"e","x","c","_","t","e","x","t">>, PyNone>>,
       <<<<"f","i","l","e","n","a","m","e">>, PyNone>>,
       <<<<"f","u","n","c","N","a","m","e">>, PyNone>>,
       <<<<"l","e","v","e","l","n","a","m","e">>, PyNone>>,
       <<<<"l","e","v","e","l","n","o">>, PyNone>>,
       <<<<"l","i","n","e","n","o">>, PyNone>>,
       <<<<"m","e","s","s","a","g","e">>, PyNone>>,
       <<<<"m","o","d","u","l","e">>, PyNone>>,
       <<<<"m","s","e","c","s">>, PyNone>>,
       <<<<"m","s","g">>, PyStr(<<"m","e","s","s","a","g","e","_","r","a","w">>)>>,
       <<<<"n","a","m","e">>, PyStr(<<"l","o","g","g","e","r","_","n","a","m","e">>)>>,
       <<<<"p","a","t","h","n","a","m","e">>, PyNone>>,
       <<<<"p","r","o","c","e","s","s">>, PyStr(<<"p","i","d">>)>>,
       <<<<"p","r","o","c","e","s","s","N","a","m","e">>, PyStr(<<"p","r","o","c","e","s","s","_","n","a","m","e">>)>>,
       <<<<"r","e","l","a","t","i","v","e","C","r","e","a","t","e","d">>, PyNone>>,
       <<<<"t","h","r","e","a","d">>, PyStr(<<"t","h","r","e","a","d","_","i","d">>)>>,
       <<<<"t","h","r","e","a","d","N","a","m","e">>, PyStr(<<"t","h","r","e","a","d","_","n","a","m","e">>)>> >>

\* int(ts * 1000000) of the float ts = h / 2
_to_usec(h) == (h * 1000000) \div 2

\* str(traceback) of the module traceback
MODULE_TRACEBACK_STR == <<"<","m","o","d","u","l","e"," ","'","t","r","a","c","e","b","a","c","k","'",">">>

HEX == <<"0","1","2","3","4","5","6","7","8","9","a","b","c","d","e","f">>

\* the bytes of a text that may hold "\0"
name_bytes(name) ==
    concat([i \in 1..Len(name) |-> IF name[i] = NUL THEN <<0>> ELSE utf8_char(name[i])])

\* the sum of i * bytes[i] for i from lo to hi, by halves
RECURSIVE weighted_sum(_, _, _)
weighted_sum(bytes, lo, hi) ==
    IF lo > hi THEN 0
    ELSE IF lo = hi THEN lo * bytes[lo]
    ELSE weighted_sum(bytes, lo, (lo + hi) \div 2)
         + weighted_sum(bytes, ((lo + hi) \div 2) + 1, hi)

\* uuid.uuid3(uuid.NAMESPACE_OID, name).hex, with 16 bits for the 128 of
\* the MD5 digest: a checksum of the bytes of name
uuid3_hex(name) ==
    LET bytes == name_bytes(name)
        d == (Len(bytes) + 7 * weighted_sum(bytes, 1, Len(bytes))) % 65536
    IN  << HEX[(d \div 4096) + 1], HEX[((d \div 256) % 16) + 1],
           HEX[((d \div 16) % 16) + 1], HEX[(d % 16) + 1] >>

\* The pairs the loop over RECORD_FIELDS_MAP appends to result: each field
\* of source that has a name in the map and is not None, under that name
renamed_fields(source) ==
    LET renamed(item) ==
            /\ item[2].t # "none"
            /\ dict_has(source, item[1])
            /\ dict_get(source, item[1]).t # "none"
        named == SelectSeq(RECORD_FIELDS_MAP, renamed)
    IN  [i \in 1..Len(named) |-> <<named[i][2].v, dict_get(source, named[i][1])>>]

\* what the loop leaves of source: it pops every field of the map
remaining_fields(source) ==
    dict_without(source, { RECORD_FIELDS_MAP[i][1] : i \in 1..Len(RECORD_FIELDS_MAP) })

\* JournaldLogHandler.__format_record(record) of the handler self: the list
\* of pairs, or the exception raised
__format_record(self, record) ==
    LET message == format(record)
        levelno == dict_get(record, <<"l","e","v","e","l","n","o">>).v
    IN  IF message.exc # "none" THEN [exc |-> message.exc, result |-> <<>>]
        ELSE IF ~dict_has(LEVELS, levelno) THEN [exc |-> "KeyError", result |-> <<>>]
        ELSE
        LET message_level == dict_get(LEVELS, levelno)
            message_facility == self.facility
            message_identifier == self.identifier
            module == dict_get(record, <<"m","o","d","u","l","e">>)
            funcName == dict_get(record, <<"f","u","n","c","N","a","m","e">>)
            lineno == dict_get(record, <<"l","i","n","e","n","o">>)
            exc_info == dict_get(record, <<"e","x","c","_","i","n","f","o">>)
            message_code_string ==
                py_str(module) \o <<".">> \o py_str(funcName) \o <<":">> \o py_str(lineno)
            result1 ==
                << <<<<"m","e","s","s","a","g","e">>, PyStr(message.text)>>,
                   <<<<"p","r","i","o","r","i","t","y">>, PyInt(message_level)>>,
                   <<<<"s","y","s","l","o","g","_","f","a","c","i","l","i","t","y">>, PyInt(message_facility)>>,
                   <<<<"s","y","s","l","o","g","_","i","d","e","n","t","i","f","i","e","r">>, message_identifier>>,
                   <<<<"c","o","d","e">>, PyStr(message_code_string)>>,
                   <<<<"c","o","d","e">>, PyDict(<< <<<<"f","u","n","c">>, funcName>>,
                                         <<<<"f","i","l","e">>, dict_get(record, <<"p","a","t","h","n","a","m","e">>)>>,
                                         <<<<"l","i","n","e">>, lineno>>,
                                         <<<<"m","o","d","u","l","e">>, module>> >>)>>,
                   <<<<"c","r","e","a","t","e","d","_","u","s","e","c">>, PyInt(_to_usec(dict_get(record, <<"c","r","e","a","t","e","d">>).v))>>,
                   <<<<"r","e","l","a","t","i","v","e","_","u","s","e","c">>,
                     PyInt(_to_usec(dict_get(record, <<"r","e","l","a","t","i","v","e","C","r","e","a","t","e","d">>).v))>> >>
            message_traceback ==
                IF exc_info.t = "none" THEN <<>> ELSE join(<<"\n">>, exc_info.lines)
            result2 ==
                IF exc_info.t = "none" THEN result1
                ELSE result1 \o
                     << <<<<"e","x","c","e","p","t","i","o","n">>, PyDict(<< <<<<"t","y","p","e">>, exc_info.type>>,
                                                   <<<<"v","a","l","u","e">>, exc_info.value>> >>)>>,
                        <<<<"t","r","a","c","e","b","a","c","k">>, PyStr(message_traceback)>> >>
            message_hash ==
                join(<<NUL>>, << message.text, MODULE_TRACEBACK_STR, int_str(message_level),
                                int_str(message_facility), py_str(message_identifier),
                                message_code_string >>)
            result3 ==
                IF self.use_message_id
                THEN Append(result2, <<<<"m","e","s","s","a","g","e","_","i","d">>, PyStr(uuid3_hex(message_hash))>>)
                ELSE result2
            source == formatted_dict(record)
        IN  [exc |-> "none",
             result |-> Append(result3 \o renamed_fields(source),
                               <<<<"e","x","t","r","a">>, PyDict(remaining_fields(source))>>)]

(***************************************************************************)
(* The program: one JournaldLogHandler with its JournaldTransport, the     *)
(* threads that log through the handler or call the transport's send, and  *)
(* the daemon that receives.                                               *)
(***************************************************************************)
\* JournaldTransport.SOCKET_PATH
SOCKET_PATH == <<"/","r","u","n","/","s","y","s","t","e","m","d","/","j","o","u","r","n","a","l","/","s","o","c","k","e","t">>

\* the path of a substitute listener (the tests bind one in a temporary
\* directory)
NOTIFY_SOCK == <<"/","t","m","p","/","n","o","t","i","f","y",".","s","o","c","k">>

\* JournaldTransport.__init__(socket_path): the transport, its socket
\* connected
JournaldTransport(path) ==
    [socket |-> [family |-> "AF_UNIX", type |-> "SOCK_DGRAM", peer |-> SOCKET_PATH]]

\* JournaldLogHandler.__init__(identifier, facility, use_message_id, socket_path)
JournaldLogHandler(identifier, facility, use_message_id, path) ==
    [transport |-> JournaldTransport(path),
     identifier |-> identifier,
     facility |-> facility,
     use_message_id |-> use_message_id]

\* repr() of a text
repr(text) ==
    LET quote == IF "'" \in Range(text) THEN "\"" ELSE "'"
        escaped(c) == IF c = "\n" THEN <<"\\", "n">>
                      ELSE IF c = "\\" THEN <<"\\", "\\">>
                      ELSE <<c>>
    IN  <<quote>> \o concat([i \in 1..Len(text) |-> escaped(text[i])]) \o <<quote>>

\* the threads of the process
Threads == {1, 2}

\* a thread at rest: before its first call and after a call has returned or
\* raised
AtRest(t) == pc[t] \in {"idle", "done"}

\* The logging calls and the calls of send that the threads make.
Blob(n) == PyBytes([i \in 1..n |-> 120])

HELLO == <<"h","e","l","l","o">>

Records ==
    { LogRecord(INFO, HELLO, <<>>, PyNone, <<>>),
      LogRecord(ERROR, <<"n","=","%","d">>, <<PyStr(<<"x">>)>>, PyNone, <<>>),
      LogRecord(CUSTOM_LEVEL, HELLO, <<>>, PyNone, <<>>),
      LogRecord(WARNING, HELLO, <<>>, PyNone, << <<<<"o","b","j">>, PyBroken("ValueError")>> >>) }

Pairs ==
    { << <<<<"m","e","s","s","a","g","e">>, PyStr(HELLO)>>, <<<<"p","r","i","o","r","i","t","y">>, PyInt(6)>> >>,
      << <<<<"m","e","s","s","a","g","e">>, PyStr(HELLO)>>, <<<<"b","l","o","b">>, Blob(DgramLimit)>> >>,
      << <<<<"m","e","s","s","a","g","e">>, PyStr(HELLO)>>, <<<<"b","l","o","b">>, Blob(BufSize)>> >>,
      << <<<<"m","e","s","s","a","g","e">>, PyStr(HELLO)>>, <<<<"o","b","j">>, PyBroken("ValueError")>> >> }

Calls ==
    { [call |-> "emit", arg |-> r] : r \in Records }
    \cup { [call |-> "send", arg |-> p] : p \in Pairs }

\* the file object of memfd_open before it is opened
NoFile == [fd |-> 0, buffer |-> <<>>]

Init ==
    /\ byteorder \in {"little", "big"}
    /\ fn = "none"
    /\ fn_pc = "return"
    /\ fn_arg = <<>>
    /\ fn_ret = <<>>
    /\ variant \in {"memfd", "tempfile"}
    /\ socket_path \in {SOCKET_PATH, NOTIFY_SOCK}
    /\ handler = JournaldLogHandler(PyNone, Facility.LOCAL7, TRUE, socket_path)
    /\ daemon = "up"
    /\ inflight = <<>>
    /\ received = <<>>
    /\ files = <<>>
    /\ open_fds = {}
    /\ stderr = <<>>
    /\ calls = 0
    /\ threads = {1}
    /\ pc = [t \in Threads |-> "idle"]
    /\ call = [t \in Threads |-> "none"]
    /\ arg = [t \in Threads |-> <<>>]
    /\ send_pairs = [t \in Threads |-> <<>>]
    /\ getvalue = [t \in Threads |-> <<>>]
    /\ mfp = [t \in Threads |-> NoFile]
    /\ caught = [t \in Threads |-> "none"]
    /\ exc = [t \in Threads |-> "none"]
    /\ ops = [t \in Threads |-> <<>>]

\* A thread calls logger.log(...), which hands the record to
\* Handler.handle and, under the handler's lock, to emit; or it calls
\* transport.send(pairs).
Call(t) ==
    /\ t \in threads
    /\ AtRest(t)
    /\ calls < MaxCalls
    /\ \E c \in Calls :
         /\ c.call = "emit" => \A u \in Threads : call[u] = "emit" => AtRest(u)
         /\ call' = [call EXCEPT ![t] = c.call]
         /\ arg' = [arg EXCEPT ![t] = c.arg]
         /\ send_pairs' = [send_pairs EXCEPT ![t] = IF c.call = "send" THEN c.arg ELSE <<>>]
         /\ pc' = [pc EXCEPT ![t] = IF c.call = "emit" THEN "format_record" ELSE "pack"]
    /\ calls' = calls + 1
    /\ getvalue' = [getvalue EXCEPT ![t] = <<>>]
    /\ mfp' = [mfp EXCEPT ![t] = NoFile]
    /\ caught' = [caught EXCEPT ![t] = "none"]
    /\ exc' = [exc EXCEPT ![t] = "none"]
    /\ ops' = [ops EXCEPT ![t] = <<>>]
    /\ UNCHANGED <<fnvars, threads, variant, socket_path, handler, daemon, inflight, received,
                   files, open_fds, stderr>>

\* send raises exception e in thread t: emit catches it (except Exception)
\* and goes to _fallback, a caller of send gets it
Raise(t, e) ==
    /\ pc' = [pc EXCEPT ![t] = IF call[t] = "emit" THEN "fallback" ELSE "done"]
    /\ caught' = [caught EXCEPT ![t] = IF call[t] = "emit" THEN e ELSE @]
    /\ exc' = [exc EXCEPT ![t] = IF call[t] = "emit" THEN "none" ELSE e]

\* send returns in thread t
Return(t) ==
    /\ pc' = [pc EXCEPT ![t] = "done"]
    /\ UNCHANGED <<caught, exc>>

\* emit: self.__format_record(record)
emit_format_record(t) ==
    /\ pc[t] = "format_record"
    /\ LET formatted == __format_record(handler, arg[t])
       IN  IF formatted.exc # "none"
           THEN /\ pc' = [pc EXCEPT ![t] = "fallback"]
                /\ caught' = [caught EXCEPT ![t] = formatted.exc]
                /\ UNCHANGED send_pairs
           ELSE /\ pc' = [pc EXCEPT ![t] = "pack"]
                /\ send_pairs' = [send_pairs EXCEPT ![t] = formatted.result]
                /\ UNCHANGED caught
    /\ UNCHANGED <<fnvars, threads, variant, socket_path, handler, daemon, inflight, received, files,
                   open_fds, stderr, calls, call, arg, getvalue, mfp, exc, ops>>

\* send: the loop of pack over the send_pairs, and fp.getvalue()
send_pack(t) ==
    /\ pc[t] = "pack"
    /\ LET fp == pack_pairs(BytesIO, send_pairs[t])
       IN  IF fp.exc # "none"
           THEN /\ Raise(t, fp.exc)
                /\ UNCHANGED getvalue
           ELSE /\ getvalue' = [getvalue EXCEPT ![t] = fp.buf]
                /\ pc' = [pc EXCEPT ![t] = "sendall"]
                /\ UNCHANGED <<caught, exc>>
    /\ UNCHANGED <<fnvars, threads, variant, socket_path, handler, daemon, inflight, received, files,
                   open_fds, stderr, calls, call, arg, send_pairs, mfp, ops>>

\* the errors of a datagram of n bytes sent on the socket now
send_errors(n) ==
    (IF n > DgramLimit THEN {"EMSGSIZE"} ELSE {})
    \cup (IF daemon = "down" THEN {"ECONNREFUSED"} ELSE {})

\* a datagram on its way to the peer of the socket: its body and the
\* descriptors of its ancillary data; with it, the buffer that send encoded
\* and the error of the direct write of that send, the thread that sent
\* and the pairs it was to send
Datagram(t, body, fds) ==
    [to |-> handler.transport.socket.peer, body |-> body, fds |-> fds,
     encoded |-> getvalue[t], err |-> IF ops[t] = <<>> THEN "none" ELSE ops[t][1].err,
     by |-> t, pairs |-> send_pairs[t]]

\* send: self.socket.sendall(value), and except OSError
send_sendall(t) ==
    /\ pc[t] = "sendall"
    /\ \/ /\ send_errors(Len(getvalue[t])) = {}
          /\ inflight' = Append(inflight, Datagram(t, getvalue[t], <<>>))
          /\ ops' = [ops EXCEPT ![t] = Append(@, [op |-> "sendall", err |-> "none"])]
          /\ Return(t)
       \/ /\ \E e \in send_errors(Len(getvalue[t])) :
               ops' = [ops EXCEPT ![t] = Append(@, [op |-> "sendall", err |-> e])]
          /\ pc' = [pc EXCEPT ![t] = "memfd_open"]
          /\ UNCHANGED <<inflight, caught, exc>>
    /\ UNCHANGED <<fnvars, threads, variant, socket_path, handler, daemon, received, files,
                   open_fds, stderr, calls, call, arg, send_pairs, getvalue, mfp>>

\* send: with self.memfd_open("wb+") as mfp; os.memfd_create or
\* tempfile.TemporaryFile may fail (the process is out of descriptors)
send_memfd_open(t) ==
    /\ pc[t] = "memfd_open"
    /\ \/ /\ files' = Append(files, [content |-> <<>>, sealed |-> FALSE])
          /\ open_fds' = open_fds \cup {Len(files) + 1}
          /\ mfp' = [mfp EXCEPT ![t] = [fd |-> Len(files) + 1, buffer |-> <<>>]]
          /\ ops' = [ops EXCEPT ![t] = Append(@, [op |-> "memfd_open", err |-> "none"])]
          /\ pc' = [pc EXCEPT ![t] = "write"]
          /\ UNCHANGED <<caught, exc>>
       \/ /\ ops' = [ops EXCEPT ![t] = Append(@, [op |-> "memfd_open", err |-> "EMFILE"])]
          /\ Raise(t, "EMFILE")
          /\ UNCHANGED <<files, open_fds, mfp>>
    /\ UNCHANGED <<fnvars, threads, variant, socket_path, handler, daemon, inflight, received,
                   stderr, calls, call, arg, send_pairs, getvalue>>

\* send: mfp.write(value) on the buffered file object: what fits the buffer
\* of the object stays in it, what does not is written to the file, and
\* that write may fail (no space left)
send_write(t) ==
    /\ pc[t] = "write"
    /\ \/ /\ Len(getvalue[t]) <= BufSize
          /\ mfp' = [mfp EXCEPT ![t].buffer = getvalue[t]]
          /\ pc' = [pc EXCEPT ![t] = "memfd_seal"]
          /\ UNCHANGED <<files, caught, exc>>
       \/ /\ Len(getvalue[t]) > BufSize
          /\ files' = [files EXCEPT ![mfp[t].fd].content = @ \o getvalue[t]]
          /\ pc' = [pc EXCEPT ![t] = "memfd_seal"]
          /\ UNCHANGED <<mfp, caught, exc>>
       \/ /\ Len(getvalue[t]) > BufSize
          /\ pc' = [pc EXCEPT ![t] = "exit"]
          /\ exc' = [exc EXCEPT ![t] = "ENOSPC"]
          /\ UNCHANGED <<files, mfp, caught>>
    /\ UNCHANGED <<fnvars, threads, variant, socket_path, handler, daemon, inflight, received,
                   open_fds, stderr, calls, call, arg, send_pairs, getvalue, ops>>

\* send: self.memfd_seal(mfp); with memfd_create, fp.flush() and the seals,
\* and the flush may fail; without it, pass
send_memfd_seal(t) ==
    /\ pc[t] = "memfd_seal"
    /\ \/ /\ variant = "memfd"
          /\ files' = [files EXCEPT ![mfp[t].fd] =
                         [content |-> @.content \o mfp[t].buffer, sealed |-> TRUE]]
          /\ mfp' = [mfp EXCEPT ![t].buffer = <<>>]
          /\ pc' = [pc EXCEPT ![t] = "sendmsg"]
          /\ UNCHANGED <<caught, exc>>
       \/ /\ variant = "memfd"
          /\ mfp[t].buffer # <<>>
          /\ pc' = [pc EXCEPT ![t] = "exit"]
          /\ exc' = [exc EXCEPT ![t] = "ENOSPC"]
          /\ UNCHANGED <<files, mfp, caught>>
       \/ /\ variant = "tempfile"
          /\ pc' = [pc EXCEPT ![t] = "sendmsg"]
          /\ UNCHANGED <<files, mfp, caught, exc>>
    /\ UNCHANGED <<fnvars, threads, variant, socket_path, handler, daemon, inflight, received,
                   open_fds, stderr, calls, call, arg, send_pairs, getvalue, ops>>

\* send: self.socket.sendmsg([], [(SOL_SOCKET, SCM_RIGHTS, [mfp.fileno()])])
send_sendmsg(t) ==
    /\ pc[t] = "sendmsg"
    /\ \/ /\ send_errors(0) = {}
          /\ inflight' = Append(inflight, Datagram(t, <<>>, <<mfp[t].fd>>))
          /\ ops' = [ops EXCEPT ![t] = Append(@, [op |-> "sendmsg", err |-> "none"])]
          /\ UNCHANGED exc
       \/ /\ \E e \in send_errors(0) :
               /\ ops' = [ops EXCEPT ![t] = Append(@, [op |-> "sendmsg", err |-> e])]
               /\ exc' = [exc EXCEPT ![t] = e]
          /\ UNCHANGED inflight
    /\ pc' = [pc EXCEPT ![t] = "exit"]
    /\ UNCHANGED <<fnvars, threads, variant, socket_path, handler, daemon, received, files,
                   open_fds, stderr, calls, call, arg, send_pairs, getvalue, mfp, caught>>

\* send as it would be with mfp.close() after sendmsg in place of the with
\* statement: an exception leaves the file open
send_exit_without_with(t) ==
    /\ pc[t] = "exit"
    /\ open_fds' = IF exc[t] = "none" THEN open_fds \ {mfp[t].fd} ELSE open_fds
    /\ mfp' = [mfp EXCEPT ![t].buffer = <<>>]
    /\ \/ /\ files' = [files EXCEPT ![mfp[t].fd].content = @ \o mfp[t].buffer]
          /\ IF exc[t] # "none" THEN Raise(t, exc[t]) ELSE Return(t)
       \/ /\ mfp[t].buffer # <<>>
          /\ UNCHANGED files
          /\ Raise(t, "ENOSPC")
    /\ UNCHANGED <<fnvars, threads, variant, socket_path, handler, daemon, inflight, received,
                   stderr, calls, call, arg, send_pairs, getvalue, ops>>

\* send: the exit of the with statement, mfp.close(): what the buffer of
\* the file object still holds is written to the file, which may fail, and
\* the descriptor is closed; an exception of the block or of the close
\* leaves send
send_exit(t) ==
    /\ pc[t] = "exit"
    /\ open_fds' = open_fds \ {mfp[t].fd}
    /\ mfp' = [mfp EXCEPT ![t].buffer = <<>>]
    /\ \/ /\ files' = [files EXCEPT ![mfp[t].fd].content = @ \o mfp[t].buffer]
          /\ IF exc[t] # "none" THEN Raise(t, exc[t]) ELSE Return(t)
       \/ /\ mfp[t].buffer # <<>>
          /\ UNCHANGED files
          /\ Raise(t, "ENOSPC")
    /\ UNCHANGED <<fnvars, threads, variant, socket_path, handler, daemon, inflight, received,
                   stderr, calls, call, arg, send_pairs, getvalue, ops>>

\* emit: except Exception: self._fallback(record), the three writes to
\* sys.stderr, of which the second formats the record again
emit_fallback(t) ==
    /\ pc[t] = "fallback"
    /\ LET message == format(arg[t])
       IN  /\ stderr' = stderr \o << <<"U","n","a","b","l","e"," ","t","o"," ","w","r","i","t","e"," ","m","e","s","s","a","g","e"," ">> >>
                        \o (IF message.exc # "none" THEN <<>>
                            ELSE << repr(message.text), <<" ","t","o"," ","j","o","u","r","n","a","l","d">> \o <<"\n">> >>)
           /\ exc' = [exc EXCEPT ![t] = message.exc]
    /\ pc' = [pc EXCEPT ![t] = "done"]
    /\ UNCHANGED <<fnvars, threads, variant, socket_path, handler, daemon, inflight, received, files,
                   open_fds, calls, call, arg, send_pairs, getvalue, mfp, caught, ops>>

\* The daemon receives the next datagram, and reads the files of its
\* descriptors as they are then.
Deliver ==
    /\ daemon = "up"
    /\ inflight # <<>>
    /\ LET d == Head(inflight)
       IN  received' = Append(received,
                         [to |-> d.to, body |-> d.body, encoded |-> d.encoded, err |-> d.err,
                          by |-> d.by, pairs |-> d.pairs,
                          files |-> [i \in 1..Len(d.fds) |-> files[d.fds[i]].content]])
    /\ inflight' = Tail(inflight)
    /\ UNCHANGED <<fnvars, threads, variant, socket_path, handler, daemon, files, open_fds, stderr,
                   calls, pc, call, arg, send_pairs, getvalue, mfp, caught, exc, ops>>

\* The daemon stops: nothing listens on the socket path any more.
DaemonStop ==
    /\ daemon = "up"
    /\ daemon' = "down"
    /\ UNCHANGED <<fnvars, threads, variant, socket_path, handler, inflight, received, files,
                   open_fds, stderr, calls, pc, call, arg, send_pairs, getvalue, mfp, caught, exc, ops>>

Next ==
    \/ \E t \in Threads : Call(t)
    \/ \E t \in Threads : emit_format_record(t)
    \/ \E t \in Threads : send_pack(t)
    \/ \E t \in Threads : send_sendall(t)
    \/ \E t \in Threads : send_memfd_open(t)
    \/ \E t \in Threads : send_write(t)
    \/ \E t \in Threads : send_memfd_seal(t)
    \/ \E t \in Threads : send_sendmsg(t)
    \/ \E t \in Threads : send_exit(t)
    \/ \E t \in Threads : emit_fallback(t)
    \/ Deliver
    \/ DaemonStop

Spec == Init /\ [][Next]_vars

\* The same program with a second thread: the threads call the handler
\* and send of the one transport at the same time.
ConcurrentInit ==
    /\ byteorder \in {"little", "big"}
    /\ fn = "none"
    /\ fn_pc = "return"
    /\ fn_arg = <<>>
    /\ fn_ret = <<>>
    /\ variant \in {"memfd", "tempfile"}
    /\ socket_path \in {SOCKET_PATH, NOTIFY_SOCK}
    /\ handler = JournaldLogHandler(PyNone, Facility.LOCAL7, TRUE, socket_path)
    /\ daemon = "up"
    /\ inflight = <<>>
    /\ received = <<>>
    /\ files = <<>>
    /\ open_fds = {}
    /\ stderr = <<>>
    /\ calls = 0
    /\ threads = Threads
    /\ pc = [t \in Threads |-> "idle"]
    /\ call = [t \in Threads |-> "none"]
    /\ arg = [t \in Threads |-> <<>>]
    /\ send_pairs = [t \in Threads |-> <<>>]
    /\ getvalue = [t \in Threads |-> <<>>]
    /\ mfp = [t \in Threads |-> NoFile]
    /\ caught = [t \in Threads |-> "none"]
    /\ exc = [t \in Threads |-> "none"]
    /\ ops = [t \in Threads |-> <<>>]

ConcurrentSpec == ConcurrentInit /\ [][Next]_vars

\* The program as constructed and before any call, for the specifications
\* that call one function on its own.
Constructed ==
    /\ variant = "memfd"
    /\ socket_path = SOCKET_PATH
    /\ handler = JournaldLogHandler(PyNone, Facility.LOCAL7, TRUE, SOCKET_PATH)
    /\ daemon = "up"
    /\ inflight = <<>>
    /\ received = <<>>
    /\ files = <<>>
    /\ open_fds = {}
    /\ stderr = <<>>
    /\ calls = 0
    /\ threads = {1}
    /\ pc = [t \in Threads |-> "idle"]
    /\ call = [t \in Threads |-> "none"]
    /\ arg = [t \in Threads |-> <<>>]
    /\ send_pairs = [t \in Threads |-> <<>>]
    /\ getvalue = [t \in Threads |-> <<>>]
    /\ mfp = [t \in Threads |-> NoFile]
    /\ caught = [t \in Threads |-> "none"]
    /\ exc = [t \in Threads |-> "none"]
    /\ ops = [t \in Threads |-> <<>>]

(***************************************************************************)
(* pack called on its own, on one key and one value.                       *)
(***************************************************************************)
PackKeys == { <<"k">>, <<"M","s","g","_","i","d","2">> }

\* a payload longer than one length byte can count
LongBytes == [i \in 1..300 |-> i % 256]

Scalars ==
    { PyNone,
      PyInt(0), PyInt(7), PyInt(-12), PyInt(1024),
      PyBool(FALSE), PyBool(TRUE),
      PyFloat(0), PyFloat(3), PyFloat(-1),
      PyStr(<<>>), PyStr(<<"a","b">>), PyStr(<<"a","=","b">>), PyStr(<<" ">>),
      PyStr(<<"c","a","f",E_ACUTE>>),
      PyStr(<<"\n">>), PyStr(<<"a","\n","b">>), PyStr(<<E_ACUTE,"\n">>),
      PyBytes(<<>>), PyBytes(<<0, 10, 255>>), PyBytes(<<61>>), PyBytes(LongBytes),
      PyObject(<<"<","E",">">>), PyBroken("TypeError") }

\* the leaves put beside a nested value
Leaves == { PyNone, PyInt(0) }

\* the sequences and mappings that hold v
Wraps(v) ==
    { PyList(<<v>>), PyDict(<<<<<<"x">>, v>>>>) }
    \cup { PyList(<<l, v>>) : l \in Leaves }
    \cup { PyTuple(<<v, l>>) : l \in Leaves }
    \cup { PyDict(<<<<<<"y">>, l>>, <<<<"F","o","o">>, v>>>>) : l \in Leaves }

RECURSIVE Values(_)
Values(d) ==
    IF d = 0 THEN Scalars \cup { PyList(<<>>), PyDict(<<>>) }
    ELSE Values(d - 1) \cup UNION { Wraps(v) : v \in Values(d - 1) }

PackValues == Values(MaxDepth)

PackInit ==
    /\ byteorder \in {"little", "big"}
    /\ fn = "pack"
    /\ fn_pc = "call"
    /\ fn_arg \in { [key |-> k, value |-> v] : k \in PackKeys, v \in PackValues }
    /\ fn_ret = BytesIO
    /\ Constructed

\* fp = BytesIO(); JournaldTransport.pack(fp, key, value)
PackCall ==
    /\ fn = "pack"
    /\ fn_pc = "call"
    /\ fn_ret' = pack(BytesIO, fn_arg.key, fn_arg.value)
    /\ fn_pc' = "return"
    /\ UNCHANGED <<byteorder, fn, fn_arg, progvars>>

PackSpec == PackInit /\ [][PackCall]_vars

(***************************************************************************)
(* __format_record called on its own, on one handler and one record.       *)
(***************************************************************************)
\* the handlers JournaldLogHandler(identifier, facility, use_message_id)
Handlers ==
    { [identifier |-> i, facility |-> f, use_message_id |-> u] :
        i \in {PyNone, PyStr(<<"a","p","p">>)},
        f \in {Facility.LOCAL7, Facility.USER},
        u \in BOOLEAN }

RecordLevels == {CRITICAL, FATAL, ERROR, WARNING, INFO, DEBUG, NOTSET, CUSTOM_LEVEL}

\* the message and the arguments of a logging call
Messages ==
    { <<<<"T","e","s","t"," ","m","e","s","s","a","g","e">>, <<>>>>,
      <<<<"a">> \o <<"\n">> \o <<"b">>, <<>>>>,
      <<<<"n","=","%","d">>, <<PyInt(1)>>>>,
      <<<<"n","=","%","d">>, <<PyStr(<<"x">>)>>>>,
      <<<<"%","s"," ","o","f"," ","%","d">>, <<PyStr(<<"x">>)>>>>,
      <<<<"1","0","0","%">>, <<>>>> }

\* what exc_info holds after "raise E('boom')", and without an exception
ZeroDivision ==
    ExcInfo(<<"<","c","l","a","s","s"," ","'","E","'",">">>, <<"b","o","o","m">>,
            << <<"T","r","a","c","e","b","a","c","k",":">> \o <<"\n">>, <<"E",":"," ","b","o","o","m">> \o <<"\n">> >>)

ExcInfos == {PyNone, ZeroDivision}

\* the extra of a logging call
Extras == { <<>>, << <<<<"f","o","o">>, PyStr(<<"b","a","r">>)>> >> }

FormatRecords ==
    { LogRecord(l, m[1], m[2], e, x) :
        l \in RecordLevels, m \in Messages, e \in ExcInfos, x \in Extras }

FormatInit ==
    /\ byteorder \in {"little", "big"}
    /\ fn = "format"
    /\ fn_pc = "call"
    /\ fn_arg \in { [self |-> h, record |-> r] : h \in Handlers, r \in FormatRecords }
    /\ fn_ret = [exc |-> "none", result |-> <<>>]
    /\ Constructed

\* self.__format_record(record)
FormatCall ==
    /\ fn = "format"
    /\ fn_pc = "call"
    /\ fn_ret' = __format_record(fn_arg.self, fn_arg.record)
    /\ fn_pc' = "return"
    /\ UNCHANGED <<byteorder, fn, fn_arg, progvars>>

FormatSpec == FormatInit /\ [][FormatCall]_vars

(***************************************************************************)
(* The wire format of one field.                                           *)
(***************************************************************************)
ShortRecord(key, text) == utf8(str_upper(key)) \o <<61>> \o utf8(text) \o <<10>>

\* the payload bytes of a value sent in the long form
Payload(value) == IF value.t = "bytes" THEN value.v ELSE utf8(value.v)

IsShortScalar(value) ==
    \/ value.t \in {"int", "bool", "float"}
    \/ value.t = "str" /\ "\n" \notin Range(value.v)

IsLongScalar(value) ==
    \/ value.t = "bytes"
    \/ value.t = "str" /\ "\n" \in Range(value.v)

PackReturned == fn = "pack" /\ fn_pc = "return"

\* C8: for every key and every integer, float or text without a newline,
\* the falsy 0, 0.0, False and "" among them, pack appends exactly one
\* short-form record, KEY=<str(value)>\n with the key in upper case, and
\* for None it appends nothing.
C8_ShortForm ==
    PackReturned =>
        /\ IsShortScalar(fn_arg.value) =>
              /\ fn_ret.exc = "none"
              /\ fn_ret.buf = ShortRecord(fn_arg.key, format_value(fn_arg.value))
        /\ fn_arg.value.t = "none" => fn_ret = BytesIO

\* pack has returned for the empty text under the key "k": K=\n
C8_Witness ==
    /\ PackReturned
    /\ fn_arg.key = <<"k">>
    /\ fn_arg.value.t = "str"
    /\ fn_arg.value.v = <<>>
    /\ fn_ret.buf = <<75, 61, 10>>

\* C9: for every key and every text with a newline or byte sequence, pack
\* appends exactly one long-form record: the key in upper case, a newline,
\* 8 bytes that hold the number of payload bytes, the payload bytes
\* unchanged and one newline; the receiver, reading the length and then
\* that many bytes, reads that newline next and nothing is left over.
C9_LongForm ==
    (PackReturned /\ IsLongScalar(fn_arg.value)) =>
        LET key == utf8(str_upper(fn_arg.key))
            payload == Payload(fn_arg.value)
            buf == fn_ret.buf
            k == Len(key)
            n == Len(payload)
            fields == read_fields(buf, 1)
        IN  /\ fn_ret.exc = "none"
            /\ Len(buf) = k + 1 + 8 + n + 1
            /\ SubSeq(buf, 1, k) = key
            /\ buf[k + 1] = 10
            /\ VALUE_LEN_STRUCT_unpack(SubSeq(buf, k + 2, k + 9)) = n
            /\ SubSeq(buf, k + 10, k + 9 + n) = payload
            /\ buf[k + 10 + n] = 10
            /\ Len(fields) = 1
            /\ fields[1].form = "long"
            /\ fields[1].key = key \o <<10>>
            /\ fields[1].value = payload
            /\ fields[1].end = <<10>>

\* pack has returned for a two-line text whose first character takes two
\* bytes: 3 payload bytes for 2 characters
C9_Witness ==
    /\ PackReturned
    /\ fn_arg.key = <<"k">>
    /\ fn_arg.value.t = "str"
    /\ fn_arg.value.v = <<E_ACUTE, "\n">>
    /\ Len(fn_ret.buf) = 14
    /\ handle_datagram(fn_ret.buf) = [exc |-> "none", result |-> << <<<<"K">>, <<E_ACUTE, "\n">>>> >>]

\* The leaves of a value in traversal order, each with the key made of the
\* path to it: <<key, leaf>>.  None is absent and no leaf.
RECURSIVE LeavesOf(_, _)
LeavesOf(key, value) ==
    LET Child(i) ==
            IF value.t = "dict"
            THEN LeavesOf(key \o <<"_">> \o value.v[i][1], value.v[i][2])
            ELSE LeavesOf(key \o <<"_">> \o int_str(i - 1), value.v[i])
        From[i \in 1..(Len(value.v) + 1)] ==
            IF i > Len(value.v) THEN <<>> ELSE Child(i) \o From[i + 1]
    IN  IF value.t \in {"list", "tuple", "dict"} THEN From[1]
        ELSE IF value.t = "none" THEN <<>>
        ELSE << <<key, value>> >>

\* the record of one leaf
LeafRecord(key, value) ==
    IF IsShortScalar(value) THEN ShortRecord(key, format_value(value))
    ELSE LET k == utf8(str_upper(key))
             payload == Payload(value)
         IN  k \o <<10>> \o VALUE_LEN_STRUCT_pack(Len(payload)) \o payload \o <<10>>

RECURSIVE LeafRecords(_)
LeafRecords(leaves) ==
    IF leaves = <<>> THEN <<>>
    ELSE LeafRecord(leaves[1][1], leaves[1][2]) \o LeafRecords(Tail(leaves))

IsComposite(value) == value.t \in {"list", "tuple", "dict"}

HasBroken(leaves) == \E i \in 1..Len(leaves) : leaves[i][2].t = "broken"

\* C10: for every sequence or mapping, nested, pack raises nothing and the
\* buffer holds the records of the leaves and nothing else: one record a
\* leaf, in traversal order, each under the top-level key joined by "_"
\* with the zero-based indexes and the sub-keys of the path to the leaf.
C10_Flattening ==
    (PackReturned /\ IsComposite(fn_arg.value)) =>
        LET leaves == LeavesOf(fn_arg.key, fn_arg.value)
        IN  ~HasBroken(leaves) =>
                /\ fn_ret.exc = "none"
                /\ fn_ret.buf = LeafRecords(leaves)
                /\ Len(read_fields(fn_ret.buf, 1)) = Len(leaves)

\* pack has returned for {"y": 0, "Foo": [None, "a\nb"]} under "k":
\* K_Y=0, then K_FOO_1 in the long form
C10_Witness ==
    /\ PackReturned
    /\ fn_arg.key = <<"k">>
    /\ fn_arg.value.t = "dict"
    /\ Len(fn_arg.value.v) = 2
    /\ fn_arg.value.v[2][2].t = "list"
    /\ LeavesOf(fn_arg.key, fn_arg.value) =
          << << <<"k","_","y">>, PyInt(0) >>,
             << <<"k","_","F","o","o","_","1">>, PyStr(<<"a","\n","b">>) >> >>
    /\ Len(read_fields(fn_ret.buf, 1)) = 2
    /\ handle_datagram(fn_ret.buf).result =
          << << <<"K","_","Y">>, <<"0">> >>,
             << <<"K","_","F","O","O","_","1">>, <<"a","\n","b">> >> >>

FormatReturned == fn = "format" /\ fn_pc = "return"

\* the priority the levels of logging stand for
PriorityOf(levelno) ==
    CASE levelno = 50 -> 0
      [] levelno = 40 -> 3
      [] levelno = 30 -> 4
      [] levelno = 20 -> 6
      [] levelno = 10 -> 7
      [] levelno = 0 -> 16

\* the values of the pairs of result under the key
ValuesUnder(result, key) ==
    LET at == { i \in 1..Len(result) : result[i][1] = key }
    IN  { result[i][2] : i \in at }

\* C6: for every record at a standard level whose message formats, the
\* adapter gives one priority pair and the encoded record one PRIORITY
\* field, of the value 0 for CRITICAL and FATAL, 3 for ERROR, 4 for WARNING,
\* 6 for INFO, 7 for DEBUG and 16 for NOTSET.
C6_PriorityOfLevel ==
    LET levelno == dict_get(fn_arg.record, <<"l","e","v","e","l","n","o">>).v
    IN  (/\ FormatReturned
         /\ levelno \in {CRITICAL, FATAL, ERROR, WARNING, INFO, DEBUG, NOTSET}
         /\ format(fn_arg.record).exc = "none") =>
            LET encoded == pack_pairs(BytesIO, fn_ret.result)
                logged == handle_datagram(encoded.buf)
                fields == read_fields(encoded.buf, 1)
            IN  /\ fn_ret.exc = "none"
                /\ ValuesUnder(fn_ret.result, <<"p","r","i","o","r","i","t","y">>) = {PyInt(PriorityOf(levelno))}
                /\ encoded.exc = "none"
                /\ logged.exc = "none"
                /\ dict_get(logged.result, <<"P","R","I","O","R","I","T","Y">>) = int_str(PriorityOf(levelno))
                /\ Cardinality({ i \in 1..Len(fields) :
                                   fields[i].key = utf8(<<"P","R","I","O","R","I","T","Y">>) }) = 1

\* a record logged at CRITICAL is encoded with PRIORITY=0
C6_Witness ==
    /\ FormatReturned
    /\ dict_get(fn_arg.record, <<"l","e","v","e","l","n","o">>).v = CRITICAL
    /\ fn_ret.exc = "none"
    /\ dict_get(handle_datagram(pack_pairs(BytesIO, fn_ret.result).buf).result,
                <<"P","R","I","O","R","I","T","Y">>) = <<"0">>

(***************************************************************************)
(* The handler and the transport at work.                                  *)
(***************************************************************************)
\* the datagrams sent, received or not yet
Sent == { inflight[i] : i \in 1..Len(inflight) } \cup { received[i] : i \in 1..Len(received) }

\* the last three writes to sys.stderr, as one text
LastWrites ==
    IF Len(stderr) < 3 THEN <<>>
    ELSE concat(SubSeq(stderr, Len(stderr) - 2, Len(stderr)))

\* C1: whatever fails while a record is formatted, encoded or delivered,
\* emit returns without raising, and has written to sys.stderr one line
\* that holds the formatted message.
C1_EmitNeverRaises ==
    \A t \in Threads :
        (pc[t] = "done" /\ call[t] = "emit") =>
            /\ exc[t] = "none"
            /\ caught[t] # "none" =>
                 LastWrites = <<"U","n","a","b","l","e"," ","t","o"," ","w","r","i","t","e"," ","m","e","s","s","a","g","e"," ">> \o repr(format(arg[t]).text)
                              \o <<" ","t","o"," ","j","o","u","r","n","a","l","d">> \o <<"\n">>

\* C2: a datagram sent after the direct write was rejected as too long has
\* an empty body and one descriptor, and the file of that descriptor holds
\* the encoded buffer, all of it, from the moment the datagram is sent.
C2_OversizedDelivered ==
    /\ \A i \in 1..Len(inflight) :
         inflight[i].err = "EMSGSIZE" =>
            /\ inflight[i].body = <<>>
            /\ Len(inflight[i].fds) = 1
            /\ files[inflight[i].fds[1]].content = inflight[i].encoded
    /\ \A i \in 1..Len(received) :
         received[i].err = "EMSGSIZE" =>
            /\ received[i].body = <<>>
            /\ received[i].files = <<received[i].encoded>>

\* C3: when send has ended, it opened a file and sent a second time only
\* if the direct write failed with EMSGSIZE; after any other failure of the
\* direct write it did nothing more and raised that failure, and after a
\* direct write that succeeded it did nothing more.
C3_FallbackOnlyWhenTooLong ==
    \A t \in Threads :
        (pc[t] = "done" /\ call[t] = "send" /\ ops[t] # <<>>) =>
            /\ ops[t][1].op = "sendall"
            /\ ops[t][1].err = "none" => Len(ops[t]) = 1 /\ exc[t] = "none"
            /\ ops[t][1].err \notin {"none", "EMSGSIZE"} =>
                 Len(ops[t]) = 1 /\ exc[t] = ops[t][1].err

\* C4: the descriptors of memfd_open open in the process are those of the
\* calls of send inside their with statement, so none is open once the
\* calls have ended, however they ended; and the socket of the transport is
\* the one it was constructed with.
C4_NoDescriptorLeft ==
    /\ open_fds = { mfp[t].fd : t \in { u \in Threads :
                       pc[u] \in {"write", "memfd_seal", "sendmsg", "exit"} } }
    /\ handler.transport.socket = JournaldTransport(socket_path).socket

\* a send that opened a file and then failed has ended, and no descriptor
\* is open
C4_Witness ==
    \E t \in Threads :
        /\ pc[t] = "done"
        /\ call[t] = "send"
        /\ exc[t] # "none"
        /\ \E i \in 1..Len(ops[t]) : ops[t][i] = [op |-> "memfd_open", err |-> "none"]
        /\ open_fds = {}
        /\ files # <<>>

\* C5: the socket of a handler constructed with socket_path=P is connected
\* to P, and every datagram is sent to P.
C5_ConnectsToGivenPath ==
    /\ handler.transport.socket.peer = socket_path
    /\ \A d \in Sent : d.to = socket_path

\* C7: a record of a level that LEVELS does not hold, whose message
\* formats, is encoded with PRIORITY=16 and handed to the socket.
C7_UnknownLevelSent ==
    \A t \in Threads :
        (/\ pc[t] = "done"
         /\ call[t] = "emit"
         /\ ~dict_has(LEVELS, dict_get(arg[t], <<"l","e","v","e","l","n","o">>).v)
         /\ format(arg[t]).exc = "none") =>
            LET logged == handle_datagram(getvalue[t]).result
            IN  /\ ops[t] # <<>>
                /\ ops[t][1].op = "sendall"
                /\ dict_has(logged, <<"P","R","I","O","R","I","T","Y">>)
                /\ dict_get(logged, <<"P","R","I","O","R","I","T","Y">>) = <<"1","6">>

(***************************************************************************)
(* The message id.                                                         *)
(***************************************************************************)
\* the value of the first pair of result under key, or the default
FirstUnder(result, key, default) ==
    LET at == { i \in 1..Len(result) : result[i][1] = key }
    IN  IF at = {} THEN default
        ELSE result[CHOOSE i \in at : \A j \in at : i <= j][2]

\* C11: with use_message_id, the message_id of the pairs is the uuid3 of
\* the final message, the formatted traceback text, the priority, the
\* facility, the identifier and the source-location string, joined: the id
\* is a function of those six.
C11_MessageIdOfSixInputs ==
    (FormatReturned /\ fn_arg.self.use_message_id /\ fn_ret.exc = "none") =>
        LET result == fn_ret.result
            six == << FirstUnder(result, <<"m","e","s","s","a","g","e">>, PyNone),
                      FirstUnder(result, <<"t","r","a","c","e","b","a","c","k">>, PyStr(<<>>)),
                      FirstUnder(result, <<"p","r","i","o","r","i","t","y">>, PyNone),
                      FirstUnder(result, <<"s","y","s","l","o","g","_","f","a","c","i","l","i","t","y">>, PyNone),
                      FirstUnder(result, <<"s","y","s","l","o","g","_","i","d","e","n","t","i","f","i","e","r">>, PyNone),
                      FirstUnder(result, <<"c","o","d","e">>, PyNone) >>
        IN  ValuesUnder(result, <<"m","e","s","s","a","g","e","_","i","d">>) =
                { PyStr(uuid3_hex(join(<<NUL>>, [i \in 1..6 |-> py_str(six[i])]))) }

(***************************************************************************)
(* Several threads on one transport.                                       *)
(***************************************************************************)
\* another thread than t is inside send
Concurrent(t) ==
    \E u \in Threads \ {t} :
        pc[u] \in {"pack", "sendall", "memfd_open", "write", "memfd_seal", "sendmsg", "exit"}

\* C12: while threads call send on one transport at the same time, every
\* datagram handed to the socket holds, in its body or in the file of its
\* one descriptor, the whole encoding of the pairs of the thread that sent
\* it, in their order, and nothing else.
C12_OneRecordPerDatagram ==
    \A i \in 1..Len(inflight) :
        LET d == inflight[i]
            encoding == pack_pairs(BytesIO, d.pairs).buf
        IN  Concurrent(d.by) =>
                IF d.fds = <<>>
                THEN d.body = encoding
                ELSE /\ d.body = <<>>
                     /\ Len(d.fds) = 1
                     /\ files[d.fds[1]].content = encoding

====
